---- MODULE Spec2Model ----
(***************************************************************************)
(* Model of src/src/main.ts: the frog platformer's character controller    *)
(* (MainCharacter), level manager (Level) and frame loop (gameLoop,        *)
(* startGame).                                                             *)
(*                                                                         *)
(* Numbers.  The source works on JavaScript numbers whose only fractional  *)
(* quantity is gravity = 0.7.  Every length and velocity of the model is   *)
(* kept in TENTHS of a source unit, so 0.7 is 7, the 400 x 700 viewport is *)
(* 4000 x 7000, the scroll step 2 is 20, and so on; all arithmetic of the  *)
(* source (additions and comparisons) is then integer arithmetic.          *)
(***************************************************************************)
EXTENDS Integers, Sequences, FiniteSets

VARIABLES
    player,   \* the MainCharacter object
    level,    \* the Level object: platforms, startScrolling
    state,    \* the GameState object
    pc,       \* position of the frame loop / harness
    count,    \* number of frames run (Spec) or of calls made (SpecAPI)
    last      \* the last operation and the objects as they were before it

vars == <<player, level, state, pc, count, last>>

----------------------------------------------------------------------------
(* Program constants, in tenths.                                           *)

gravity == 7
speed == 50
jumpStrength == -150
ScrollStep == 20
PlatformWidth == 800
PlatformHeight == 100
ViewWidth == 4000
ViewHeight == 7000
GroundOverhang == 200
GroundThickness == 100
SeedOffset == 200
SeedSpacing == 1000
SeedCount == 6

(* Bounds of the model.                                                    *)
MaxTicks == 31
MaxCalls == 4

(* frosch.png is not part of the sources: its size is an input.  <<400,    *)
(* 400>> (a 40 x 40 sprite) starts the character at y = 620; <<1300, 400>> *)
(* starts it at y = 440, above the scroll line.                            *)
ImageSizes == {<<400, 400>>, <<1300, 400>>}

(* Math.random() * (state.width - 80): a sample of [0, 320).               *)
SpawnXs == {0, 3000}

(* The six draws of startGame's seeding loop: a sample of [0, 320)^6.      *)
SeedDraws == {<<0, 1600, 3000, 0, 1600, 3000>>,
              <<1600, 3000, 0, 1600, 3000, 0>>}

(* The held keys seen by handlePlayerInput: <<horizontal, up>>.            *)
KeySnapshots == {"left", "right", "none"} \X BOOLEAN

(* spawnPlatform's optional height: <<>> is undefined, <<h>> is h.           *)
NoHeight == <<>>

----------------------------------------------------------------------------
(* Dimension / RectGameObject                                              *)

Dimension(x, y, width, height) ==
    [x |-> x, y |-> y, width |-> width, height |-> height]

RectGameObject(x, y, width, height) == Dimension(x, y, width, height)

(* Arguments of the calls of SpecAPI, which drives the two classes through *)
(* their methods: where the character is constructed, the platforms handed *)
(* to addPlatform, the heights handed to spawnPlatform.                    *)
InitXs == {0, 1800, 3950}
InitYs == {4550}
PlatformArgs == {RectGameObject(1600, 4960, PlatformWidth, PlatformHeight),
                 RectGameObject(1600, 4964, PlatformWidth, PlatformHeight),
                 RectGameObject(1600, 4966, PlatformWidth, PlatformHeight),
                 RectGameObject(0, 7000, PlatformWidth, PlatformHeight)}
SpawnHeights == {<<>>, <<6980>>}

----------------------------------------------------------------------------
(* MainCharacter                                                           *)

NewMainCharacter(x, y, image) ==
    [x |-> x, y |-> y, width |-> image[1], height |-> image[2],
     velocityX |-> 0, velocityY |-> 0, onGround |-> FALSE]

moveLeft(c) == [c EXCEPT !.velocityX = -speed]

moveRight(c) == [c EXCEPT !.velocityX = speed]

stopMoving(c) == [c EXCEPT !.velocityX = 0]

(* mutant: jump sets velocityY and leaves onGround set *)
jumpKeepsGround(c) ==
    IF c.onGround THEN [c EXCEPT !.velocityY = jumpStrength] ELSE c

(* mutant: jump without the onGround guard *)
jumpUnguarded(c) == [c EXCEPT !.velocityY = jumpStrength, !.onGround = FALSE]

jump(c) ==
    IF c.onGround
    THEN [c EXCEPT !.velocityY = jumpStrength, !.onGround = FALSE]
    ELSE c

(* mutant: gravity added on every update, grounded or not *)
ApplyGravityAlways(c) == [c EXCEPT !.velocityY = c.velocityY + gravity]

(* update, lines 123-125 *)
ApplyGravity(c) ==
    IF ~c.onGround THEN [c EXCEPT !.velocityY = c.velocityY + gravity] ELSE c

(* mutant: the loss check on the y this frame moves to *)
LossConditionAfterMove(c, st) == c.y + c.velocityY >= st.cameraOffset + st.height

(* update, lines 127-129: the loss check, on the y of the previous frame *)
LossCondition(c, st) == c.y >= st.cameraOffset + st.height

LossCheck(c, st) ==
    IF LossCondition(c, st) THEN [st EXCEPT !.status = "LOOSE"] ELSE st

(* mutant: the right edge wrapped with >= *)
WrapXInclusive(x, st) ==
    IF x < 0 THEN st.width
    ELSE IF x >= st.width THEN 0
    ELSE x

(* mutant: only the right edge wraps *)
WrapXRightOnly(x, st) ==
    IF x > st.width THEN 0 ELSE x

(* update, lines 131-136 *)
WrapX(x, st) ==
    IF x < 0 THEN st.width
    ELSE IF x > st.width THEN 0
    ELSE x

MoveHorizontal(c, st) == [c EXCEPT !.x = WrapX(c.x + c.velocityX, st)]

(* update, line 138 *)
MoveVertical(c) == [c EXCEPT !.y = c.y + c.velocityY]

(* update, lines 144-149 *)
(* mutant: any overlap of the two rectangles counts, whatever the direction *)
HitsAnyDirection(c, dim) ==
    /\ c.y + c.height >= dim.y
    /\ c.y <= dim.y + dim.height
    /\ c.x + c.width > dim.x
    /\ c.x < dim.x + dim.width

(* mutant: a bottom edge exactly on the platform's top is not a hit *)
HitsStrictlyAbove(c, dim) ==
    /\ c.y + c.height < dim.y
    /\ c.y + c.height + c.velocityY >= dim.y
    /\ c.x + c.width > dim.x
    /\ c.x < dim.x + dim.width

Hits(c, dim) ==
    /\ c.y + c.height <= dim.y
    /\ c.y + c.height + c.velocityY >= dim.y
    /\ c.x + c.width > dim.x
    /\ c.x < dim.x + dim.width

(* mutant: the snap puts the character's top, not its bottom, on the platform *)
LandAtPlatformTop(c, dim) ==
    [c EXCEPT !.onGround = TRUE, !.y = dim.y, !.velocityY = 0]

(* mutant: the snap leaves velocityY as it is *)
LandKeepsVelocity(c, dim) ==
    [c EXCEPT !.onGround = TRUE, !.y = dim.y - c.height]

(* update, lines 150-152 *)
Land(c, dim) ==
    [c EXCEPT !.onGround = TRUE, !.y = dim.y - c.height, !.velocityY = 0]

(* update, lines 142-154: the loop over the platforms, from index i on *)
RECURSIVE Collide(_, _, _)
Collide(c, platforms, i) ==
    IF i > Len(platforms) THEN c
    ELSE Collide(IF Hits(c, platforms[i]) THEN Land(c, platforms[i]) ELSE c,
                 platforms, i + 1)

(* the indices of the platforms whose condition held when the loop reached them *)
RECURSIVE HitIndices(_, _, _)
HitIndices(c, platforms, i) ==
    IF i > Len(platforms) THEN {}
    ELSE IF Hits(c, platforms[i])
         THEN {i} \cup HitIndices(Land(c, platforms[i]), platforms, i + 1)
         ELSE HitIndices(c, platforms, i + 1)

(* the character as the collision loop finds it: lines 123-140 done *)
BeforeCollision(c, st) ==
    [MoveVertical(MoveHorizontal(ApplyGravity(c), st)) EXCEPT !.onGround = FALSE]

(* update: the character after the call *)
CharacterUpdate(c, platforms, st) == Collide(BeforeCollision(c, st), platforms, 1)

(* update: the GameState after the call *)
CharacterUpdateState(c, st) == LossCheck(ApplyGravity(c), st)

----------------------------------------------------------------------------
(* Level                                                                   *)

NewLevel == [platforms |-> <<>>, startScrolling |-> FALSE]

addPlatform(lv, platform) ==
    [lv EXCEPT !.platforms = Append(lv.platforms, platform)]

spawnPlatform(lv, st, rx, height) ==
    addPlatform(lv, RectGameObject(rx,
                                   IF height = NoHeight THEN -st.cameraOffset
                                   ELSE height[1],
                                   PlatformWidth, PlatformHeight))

(* update, line 205 *)
ScrollLine(st) == (st.height * 65) \div 100

(* mutant: scrolling decided by the position alone, no latch *)
ScrollingByPosition(lv, p, st) == p.y <= (st.height * 65) \div 100

(* update, line 207 *)
Scrolling(lv, p, st) == lv.startScrolling \/ p.y <= ScrollLine(st)

(* mutant: the scroll step taken whether or not scrolling has latched *)
ScrollStateUnlatched(lv, p, st) ==
    [st EXCEPT !.cameraOffset = st.cameraOffset + ScrollStep]

(* mutant: the scroll step with the wrong sign *)
ScrollStateBackward(lv, p, st) ==
    IF lv.startScrolling \/ p.y <= (st.height * 65) \div 100
    THEN [st EXCEPT !.cameraOffset = st.cameraOffset - ScrollStep]
    ELSE st

(* update, lines 207-210: the GameState after the scroll step *)
ScrollState(lv, p, st) ==
    IF Scrolling(lv, p, st)
    THEN [st EXCEPT !.cameraOffset = st.cameraOffset + ScrollStep]
    ELSE st

(* update, lines 207-210: the latch after the scroll step *)
ScrollLatch(lv, p, st) ==
    IF Scrolling(lv, p, st) THEN TRUE ELSE lv.startScrolling

(* mutant: a platform exactly on the viewport bottom is kept *)
KeepsOnEdge(dim, st) == dim.y + st.cameraOffset <= st.height

(* update, line 214 *)
Keeps(dim, st) == dim.y + st.cameraOffset < st.height

(* update, lines 213-219 *)
Kept(platforms, st) == SelectSeq(platforms, LAMBDA p : Keeps(p, st))

(* mutant: one replacement spawned per removed platform *)
RECURSIVE SpawnTimes(_, _, _, _)
SpawnTimes(lv, st, rx, n) ==
    IF n = 0 THEN lv
    ELSE SpawnTimes([lv EXCEPT !.platforms =
                        Append(lv.platforms,
                               RectGameObject(rx, -st.cameraOffset,
                                              PlatformWidth, PlatformHeight))],
                    st, rx, n - 1)

LevelUpdateSpawnEach(lv, p, st, rx) ==
    LET st2  == IF lv.startScrolling \/ p.y <= (st.height * 65) \div 100
                THEN [st EXCEPT !.cameraOffset = st.cameraOffset + ScrollStep]
                ELSE st
        kept == SelectSeq(lv.platforms,
                          LAMBDA q : q.y + st2.cameraOffset < st2.height)
        lv2  == [platforms |-> kept,
                 startScrolling |-> lv.startScrolling \/ p.y <= (st.height * 65) \div 100]
    IN  SpawnTimes(lv2, st2, rx, Len(lv.platforms) - Len(kept))

(* update: the Level after the call; rx is the random x of the spawn *)
LevelUpdate(lv, p, st, rx) ==
    LET st2  == ScrollState(lv, p, st)
        kept == Kept(lv.platforms, st2)
        lv2  == [platforms |-> kept, startScrolling |-> ScrollLatch(lv, p, st)]
    IN  IF Len(kept) < Len(lv.platforms)
        THEN spawnPlatform(lv2, st2, rx, NoHeight)
        ELSE lv2

(* mutant: reset clears the platforms and leaves the latch *)
resetPlatformsOnly(lv) == [lv EXCEPT !.platforms = <<>>]

reset(lv) == [lv EXCEPT !.platforms = <<>>, !.startScrolling = FALSE]

----------------------------------------------------------------------------
(* startGame / handlePlayerInput / gameLoop                                *)

NewGameState ==
    [width |-> ViewWidth, height |-> ViewHeight, cameraOffset |-> 0,
     status |-> "GAME", points |-> 0]

handlePlayerInput(c, keys) ==
    LET moved == CASE keys[1] = "left"  -> moveLeft(c)
                   [] keys[1] = "right" -> moveRight(c)
                   [] OTHER             -> stopMoving(c)
    IN  IF keys[2] THEN jump(moved) ELSE moved

StartPlayer(st, image) ==
    NewMainCharacter((st.width - image[1]) \div 2, st.height - image[1] * 2, image)

Ground(st) ==
    RectGameObject(-GroundOverhang, st.height - GroundThickness,
                   st.width + 2 * GroundOverhang, GroundThickness)

(* startGame, lines 377-379: rxs[i] is the random x of seed platform i *)
RECURSIVE Seeded(_, _, _, _)
Seeded(lv, st, rxs, i) ==
    IF i > SeedCount THEN lv
    ELSE Seeded(spawnPlatform(lv, st, rxs[i],
                              <<st.height - SeedOffset - i * SeedSpacing>>),
                st, rxs, i + 1)

StartLevel(st, rxs) == Seeded(addPlatform(NewLevel, Ground(st)), st, rxs, 1)

Snapshot(op, c) == [op |-> op, player |-> c, level |-> level, state |-> state]

(* startGame: a fresh state, character and level; handlePlayerInput; the   *)
(* first gameLoop call is due                                              *)
Started(image, rxs, keys) ==
    [state  |-> NewGameState,
     player |-> handlePlayerInput(StartPlayer(NewGameState, image), keys),
     level  |-> StartLevel(NewGameState, rxs)]

Init ==
    \E image \in ImageSizes, rxs \in SeedDraws, keys \in KeySnapshots :
        LET g == Started(image, rxs, keys)
        IN  /\ state = g.state
            /\ player = g.player
            /\ level = g.level
            /\ pc = "frame"
            /\ count = 0
            /\ last = [op |-> "startGame", player |-> g.player,
                       level |-> g.level, state |-> g.state]

(* mutant: level.update called before player.update in the frame *)
GameLoopLevelFirst ==
    /\ pc = "frame"
    /\ state.status = "GAME"
    /\ count < MaxTicks
    /\ \E keys \in KeySnapshots, rx \in SpawnXs :
          LET c   == handlePlayerInput(player, keys)
              lv2 == LevelUpdate(level, c, state, rx)
              st2 == ScrollState(level, c, state)
          IN  /\ player' = CharacterUpdate(c, lv2.platforms, st2)
              /\ state' = CharacterUpdateState(c, st2)
              /\ level' = lv2
              /\ last' = Snapshot("player.update", c)
    /\ pc' = "level"
    /\ count' = count + 1

(* gameLoop, case GAME, lines 247-248: input, then player.update *)
GameLoopPlayer ==
    /\ pc = "frame"
    /\ state.status = "GAME"
    /\ count < MaxTicks
    /\ \E keys \in KeySnapshots :
          LET c == handlePlayerInput(player, keys)
          IN  /\ player' = CharacterUpdate(c, level.platforms, state)
              /\ state' = CharacterUpdateState(c, state)
              /\ last' = Snapshot("player.update", c)
    /\ pc' = "level"
    /\ count' = count + 1
    /\ UNCHANGED level

(* gameLoop, case GAME, lines 250-255: level.update, then the next frame is *)
(* requested                                                               *)
GameLoopLevel ==
    /\ pc = "level"
    /\ \E rx \in SpawnXs :
          /\ level' = LevelUpdate(level, player, state, rx)
          /\ state' = ScrollState(level, player, state)
    /\ pc' = "frame"
    /\ last' = Snapshot("level.update", player)
    /\ UNCHANGED <<player, count>>

(* gameLoop, case LOOSE, lines 257-326 *)
GameLoopLoose ==
    /\ pc = "frame"
    /\ state.status = "LOOSE"
    /\ state' = [state EXCEPT !.cameraOffset = 0]
    /\ pc' = "lost"
    /\ last' = Snapshot("loose", player)
    /\ UNCHANGED <<player, level, count>>

(* handleMouseClick on the Try Again button, lines 313-321: startGame *)
TryAgain ==
    /\ pc = "lost"
    /\ \E image \in ImageSizes, rxs \in SeedDraws, keys \in KeySnapshots :
          LET g == Started(image, rxs, keys)
          IN  /\ state' = g.state
              /\ player' = g.player
              /\ level' = g.level
              /\ last' = [op |-> "startGame", player |-> g.player,
                          level |-> g.level, state |-> g.state]
    /\ pc' = "frame"
    /\ UNCHANGED count

Next ==
    \/ GameLoopPlayer
    \/ GameLoopLevel
    \/ GameLoopLoose
    \/ TryAgain

Spec == Init /\ [][Next]_vars

----------------------------------------------------------------------------
(* SpecAPI: the objects as constructed, then any method of MainCharacter   *)
(* and Level called in any order, MaxCalls calls at most.                  *)

InitAPI ==
    \E x \in InitXs, y \in InitYs, image \in ImageSizes :
        /\ player = NewMainCharacter(x, y, image)
        /\ level = NewLevel
        /\ state = NewGameState
        /\ pc = "api"
        /\ count = 0
        /\ last = [op |-> "new", player |-> player, level |-> level, state |-> state]

Called(op) ==
    /\ pc = "api"
    /\ count < MaxCalls
    /\ count' = count + 1
    /\ last' = Snapshot(op, player)
    /\ pc' = pc

CallMoveLeft ==
    /\ Called("moveLeft")
    /\ player' = moveLeft(player)
    /\ UNCHANGED <<level, state>>

CallMoveRight ==
    /\ Called("moveRight")
    /\ player' = moveRight(player)
    /\ UNCHANGED <<level, state>>

CallStopMoving ==
    /\ Called("stopMoving")
    /\ player' = stopMoving(player)
    /\ UNCHANGED <<level, state>>

CallJump ==
    /\ Called("jump")
    /\ player' = jump(player)
    /\ UNCHANGED <<level, state>>

CallUpdate ==
    /\ Called("player.update")
    /\ player' = CharacterUpdate(player, level.platforms, state)
    /\ state' = CharacterUpdateState(player, state)
    /\ UNCHANGED level

CallLevelUpdate ==
    /\ Called("level.update")
    /\ \E rx \in SpawnXs : level' = LevelUpdate(level, player, state, rx)
    /\ state' = ScrollState(level, player, state)
    /\ UNCHANGED player

CallAddPlatform ==
    /\ Called("addPlatform")
    /\ \E p \in PlatformArgs : level' = addPlatform(level, p)
    /\ UNCHANGED <<player, state>>

CallSpawnPlatform ==
    /\ Called("spawnPlatform")
    /\ \E rx \in SpawnXs, h \in SpawnHeights : level' = spawnPlatform(level, state, rx, h)
    /\ UNCHANGED <<player, state>>

CallReset ==
    /\ Called("reset")
    /\ level' = reset(level)
    /\ UNCHANGED <<player, state>>

NextAPI ==
    \/ CallMoveLeft
    \/ CallMoveRight
    \/ CallStopMoving
    \/ CallJump
    \/ CallUpdate
    \/ CallLevelUpdate
    \/ CallAddPlatform
    \/ CallSpawnPlatform
    \/ CallReset

SpecAPI == InitAPI /\ [][NextAPI]_vars

----------------------------------------------------------------------------
(* Properties.  last'.op names the operation a step performs; the unprimed *)
(* variables are the objects before it, the primed ones after it.          *)

GameTick(op) == op \in {"player.update", "level.update"}

(* C1: over the ticks of a run, cameraOffset is unchanged by every tick    *)
(* whose Level.update leaves scrolling un-latched, and once scrolling has  *)
(* latched it never decreases from tick to tick.                           *)
C1_CameraUnchangedThenMonotone ==
    [][GameTick(last'.op) =>
         /\ (~level'.startScrolling => state'.cameraOffset = state.cameraOffset)
         /\ (level'.startScrolling => state'.cameraOffset >= state.cameraOffset)]_vars

(* C1 witness: a Level.update of a latched run has advanced the camera. *)
C1_Witness ==
    /\ last.op = "level.update"
    /\ last.level.startScrolling
    /\ state.cameraOffset > last.state.cameraOffset

(* a Level.update of a run that has not latched has left the camera alone *)
C1_WitnessUnlatched ==
    /\ last.op = "level.update"
    /\ ~level.startScrolling
    /\ count >= 2
    /\ state.cameraOffset = 0

(* C2 as claimed: in every step but a restart's, the ENDED handling        *)
(* included, cameraOffset is not decreased on the run's state object.      *)
C2_Original ==
    [][last'.op # "startGame" => state'.cameraOffset >= state.cameraOffset]_vars

(* C2 as amended: the character and level updates of a running game never  *)
(* decrease cameraOffset; the handler of the LOOSE status sets it to 0 on   *)
(* the run's own state object; startGame begins with a fresh 0.             *)
C2_CameraResetOnlyByLoose ==
    [][/\ (GameTick(last'.op) => state'.cameraOffset >= state.cameraOffset)
       /\ (last'.op = "loose" => state'.cameraOffset = 0 /\ pc' = "lost")
       /\ (last'.op = "startGame" => state'.cameraOffset = 0)
       /\ (state'.cameraOffset < state.cameraOffset => last'.op = "loose")]_vars

(* C2 witness: the LOOSE handler has zeroed a scrolled camera. *)
C2_Witness ==
    /\ last.op = "loose"
    /\ pc = "lost"
    /\ last.state.cameraOffset > 0
    /\ state.cameraOffset = 0

(* C3 as claimed: the loss check of a tick sets status to LOOSE exactly     *)
(* when the character's screen-space y, its y plus cameraOffset, is at or   *)
(* beyond the viewport height.                                              *)
C3_LossIffBelowViewport ==
    [][last'.op = "player.update" =>
         ((state'.status = "LOOSE") <=>
            (last'.player.y + state.cameraOffset >= state.height))]_vars

(* C4 as claimed: once status is LOOSE no level update runs and no further  *)
(* frame is requested.                                                      *)
C4_Original ==
    [][state.status = "LOOSE" /\ last'.op # "startGame" =>
         /\ last'.op # "level.update"
         /\ level' = level
         /\ pc' # "frame"]_vars

(* C4 as amended: status becomes LOOSE in the player.update that finds      *)
(* y >= cameraOffset + height; the rest of that tick still runs (the move   *)
(* and collision of that update, the level update, the request of one more  *)
(* frame); that frame takes the LOOSE branch, which updates neither the     *)
(* character nor the level and requests no frame; nothing runs after it     *)
(* but a restart.                                                           *)
C4_EndedStopsAfterTheTick ==
    [][/\ (last'.op = "player.update" =>
             ((state'.status = "LOOSE") <=>
                (last'.player.y >= state.cameraOffset + state.height)))
       /\ (state.status = "LOOSE" /\ pc = "level" =>
             last'.op = "level.update" /\ pc' = "frame" /\ player' = player)
       /\ (state.status = "LOOSE" /\ pc = "frame" =>
             last'.op = "loose" /\ pc' = "lost" /\ player' = player /\ level' = level)
       /\ (pc = "lost" => last'.op = "startGame")]_vars

(* C4 witness: the level update of the tick that ended the run has run and  *)
(* the next frame is due.                                                   *)
C4_Witness ==
    /\ state.status = "LOOSE"
    /\ pc = "frame"
    /\ last.op = "level.update"
    /\ last.state.status = "LOOSE"

(* C5: when a platform's landing condition holds in the collision loop of  *)
(* an update in which the character is falling (velocityY > 0 after the    *)
(* gravity step), the update ends with onGround = TRUE, velocityY = 0 and  *)
(* y = platform.y - character.height.                                      *)
C5_LandingSnaps ==
    [][last'.op = "player.update" =>
         LET c    == BeforeCollision(player, state)
             hits == HitIndices(c, level.platforms, 1)
         IN  c.velocityY > 0 /\ hits # {} =>
                /\ player'.onGround
                /\ player'.velocityY = 0
                /\ \A i \in hits :
                      player'.y = level.platforms[i].y - player'.height]_vars

(* C5 witness: a falling character has been landed on a platform. *)
C5_Witness ==
    /\ last.op = "player.update"
    /\ BeforeCollision(last.player, last.state).velocityY > 0
    /\ HitIndices(BeforeCollision(last.player, last.state),
                  last.level.platforms, 1) # {}
    /\ player.onGround
    /\ player.velocityY = 0

(* C6: the Level.update that first sees the character at or above 0.65 of   *)
(* the viewport height latches scrolling; a latched run stays latched at    *)
(* every later tick and its cameraOffset grows by exactly 2 in every        *)
(* Level.update, wherever the character is.                                 *)
C6_ScrollLatch ==
    [][/\ (last'.op = "level.update" =>
             IF level.startScrolling \/ player.y * 100 <= state.height * 65
             THEN level'.startScrolling
                  /\ state'.cameraOffset = state.cameraOffset + 20
             ELSE ~level'.startScrolling
                  /\ state'.cameraOffset = state.cameraOffset)
       /\ (level.startScrolling /\ GameTick(last'.op) => level'.startScrolling)]_vars

(* C6 witness: a latched run has scrolled in a tick in which the character  *)
(* is below the line again.                                                 *)
C6_Witness ==
    /\ last.op = "level.update"
    /\ last.level.startScrolling
    /\ level.startScrolling
    /\ player.y > 4550
    /\ state.cameraOffset = last.state.cameraOffset + 20

(* C7: a Level.update that removes k >= 1 platforms (those whose y plus the *)
(* advanced cameraOffset is at or past the viewport height) adds exactly    *)
(* one, one that removes none adds none; the number of platforms does not   *)
(* grow.                                                                    *)
C7_OneReplacement ==
    [][last'.op = "level.update" =>
         LET n       == Len(level.platforms)
             removed == Cardinality({i \in 1..n :
                           level.platforms[i].y + state'.cameraOffset
                              >= state'.height})
         IN  /\ Len(level'.platforms) = (IF removed >= 1 THEN n - removed + 1 ELSE n)
             /\ Len(level'.platforms) <= n]_vars

(* C7 witness: a Level.update has removed three platforms and added one. *)
C7_Witness ==
    /\ last.op = "level.update"
    /\ Len(last.level.platforms) = 3
    /\ \A i \in 1..3 :
          last.level.platforms[i].y + state.cameraOffset >= state.height
    /\ Len(level.platforms) = 1

(* C8: after x += velocityX, x < 0 becomes the viewport width, x > width    *)
(* becomes 0, and x equal to 0 or to the width stays; y is not wrapped: it  *)
(* is the moved y or a platform's snap.                                     *)
C8_HorizontalWrap ==
    [][last'.op = "player.update" =>
         LET nx == player.x + player.velocityX
             vy == IF player.onGround THEN player.velocityY
                   ELSE player.velocityY + gravity
         IN  /\ nx < 0 => player'.x = state.width
             /\ nx > state.width => player'.x = 0
             /\ nx >= 0 /\ nx <= state.width => player'.x = nx
             /\ \/ player'.y = player.y + vy
                \/ \E i \in 1..Len(level.platforms) :
                      player'.y = level.platforms[i].y - player.height]_vars

(* C8 witness: a move past the right edge has put the character at x = 0. *)
C8_Witness ==
    /\ last.op = "player.update"
    /\ last.player.x + last.player.velocityX > last.state.width
    /\ player.x = 0

(* a move onto the right edge exactly has left x there *)
C8_WitnessEdge ==
    /\ last.op = "player.update"
    /\ last.player.x + last.player.velocityX = last.state.width
    /\ player.x = last.state.width

(* C9: stopMoving sets velocityX to 0 and changes nothing else, however     *)
(* often it is called; jump with onGround = FALSE changes nothing.          *)
C9_IdempotentCommands ==
    [][/\ (last'.op = "stopMoving" =>
             /\ player' = [player EXCEPT !.velocityX = 0]
             /\ (last.op = "stopMoving" => player' = player)
             /\ level' = level
             /\ state' = state)
       /\ (last'.op = "jump" /\ ~player.onGround =>
             player' = player /\ level' = level /\ state' = state)]_vars

(* C9 witness: jump has been called on an airborne, falling character. *)
C9_Witness ==
    /\ last.op = "jump"
    /\ ~last.player.onGround
    /\ last.player.velocityY > 0
    /\ player = last.player

(* C10: reset leaves no platforms and the latch off; the Level.update that  *)
(* follows a reset scrolls exactly when the character is at or above 0.65   *)
(* of the viewport height, and otherwise leaves cameraOffset and the latch  *)
(* as they are.                                                             *)
C10_ResetUnlatches ==
    [][/\ (last'.op = "reset" =>
             /\ level'.platforms = <<>>
             /\ ~level'.startScrolling
             /\ state' = state)
       /\ (last'.op = "level.update" /\ last.op = "reset" =>
             IF player.y * 100 <= state.height * 65
             THEN level'.startScrolling
                  /\ state'.cameraOffset = state.cameraOffset + 20
             ELSE ~level'.startScrolling
                  /\ state'.cameraOffset = state.cameraOffset)]_vars

(* C10 witness: a level that had scrolled was reset and its next update,    *)
(* with the character below the line, has left the camera where it was.     *)
C10_Witness ==
    /\ last.op = "level.update"
    /\ last.state.cameraOffset > 0
    /\ last.level.platforms = <<>>
    /\ ~last.level.startScrolling
    /\ last.player.y > 4550
    /\ ~level.startScrolling
    /\ state.cameraOffset = last.state.cameraOffset

(* The landing condition as C11 words it, for the character c at the call *)
(* of update (after the input commands) and the platform dim: the bottom   *)
(* edge above the platform's top before y += velocityY, at or below it     *)
(* after, and the horizontal extents overlapping.                          *)
CrossedThisTick(c, st, dim) ==
    LET g == ApplyGravity(c)
        m == BeforeCollision(c, st)
    IN  /\ g.y + g.height < dim.y
        /\ m.y + m.height >= dim.y
        /\ m.x + m.width > dim.x
        /\ m.x < dim.x + dim.width

(* C11 as claimed: in a character update a platform is landed on exactly   *)
(* when the character's bottom edge was above the platform's top before    *)
(* this tick's vertical move, is at or below it after the move, and the    *)
(* horizontal extents overlap.                                             *)
C11_LandsIffCrossedThisTick ==
    [][last'.op = "player.update" =>
         \A i \in 1..Len(level.platforms) :
            (i \in HitIndices(BeforeCollision(last'.player, state),
                              level.platforms, 1))
               <=> CrossedThisTick(last'.player, state, level.platforms[i])]_vars

(* The platforms whose landing condition holds for the character as the    *)
(* collision loop of update(c, platforms, st) starts.                       *)
StartHits(c, platforms, st) ==
    {i \in 1..Len(platforms) : Hits(BeforeCollision(c, st), platforms[i])}

FirstOf(S) == CHOOSE i \in S : \A j \in S : i <= j

LastOf(S) == CHOOSE i \in S : \A j \in S : i >= j

(* C12 as claimed: when several platforms satisfy the landing condition at  *)
(* the start of the collision step, each of them is hit and the character   *)
(* ends on the last of them in the list.                                    *)
C12_Original ==
    [][last'.op = "player.update" =>
         LET S == StartHits(player, level.platforms, state)
         IN  S # {} =>
               /\ HitIndices(BeforeCollision(player, state), level.platforms, 1) = S
               /\ player'.y = level.platforms[LastOf(S)].y - player'.height]_vars

(* C12 as amended: the first such platform in the list is hit and decides   *)
(* the character's y; the hit zeroes velocityY, so of the later ones only   *)
(* those with the same top edge are hit as well, and the final y is that of *)
(* the first matching platform.                                             *)
C12_FirstMatchWins ==
    [][last'.op = "player.update" =>
         LET S == StartHits(player, level.platforms, state)
         IN  S # {} =>
               /\ HitIndices(BeforeCollision(player, state), level.platforms, 1)
                     = {i \in S : level.platforms[i].y
                                     = level.platforms[FirstOf(S)].y}
               /\ player'.y = level.platforms[FirstOf(S)].y - player'.height
               /\ player'.velocityY = 0
               /\ player'.onGround]_vars

(* C12 witness: two platforms with different top edges both satisfied the   *)
(* condition and the character stands on the first.                         *)
C12_Witness ==
    /\ last.op = "player.update"
    /\ LET S == StartHits(last.player, last.level.platforms, last.state)
       IN  /\ \E i, j \in S : last.level.platforms[i].y # last.level.platforms[j].y
           /\ player.y = last.level.platforms[FirstOf(S)].y - player.height

(* C13: an update adds gravity to velocityY exactly when onGround is false  *)
(* at its start; a grounded character whose update finds no platform under  *)
(* it (it walked off the edge) ends that tick with velocityY = 0, y         *)
(* unchanged and onGround = FALSE, and the update of the following tick     *)
(* starts the fall with velocityY = gravity.                                *)
C13_GravityOnlyAirborne ==
    [][last'.op = "player.update" =>
         LET c == last'.player
         IN  /\ ~player'.onGround =>
                   player'.velocityY = (IF c.onGround THEN c.velocityY
                                        ELSE c.velocityY + 7)
             /\ ~player'.onGround =>
                   player'.y = c.y + player'.velocityY
             /\ c.onGround /\ ~player'.onGround =>
                   player'.velocityY = 0 /\ player'.y = c.y
             /\ (last.op = "level.update" /\ ~player.onGround
                    /\ player.velocityY = 0 /\ ~player'.onGround) =>
                   player'.velocityY = 7 /\ player'.y = player.y + 7]_vars

(* C13 witness: a grounded character has walked off a platform's edge: its  *)
(* update left y and velocityY = 0 alone and cleared onGround.              *)
C13_Witness ==
    /\ last.op = "player.update"
    /\ last.player.onGround
    /\ last.player.velocityX # 0
    /\ ~player.onGround
    /\ player.velocityY = 0
    /\ player.y = last.player.y

(* the tick after the walk-off: the fall has begun with velocityY = gravity *)
C13_WitnessNextTick ==
    /\ last.op = "player.update"
    /\ ~last.player.onGround
    /\ last.player.velocityY = 0
    /\ count > 1
    /\ player.velocityY = 7
    /\ player.y = last.player.y + 7

(* C14: jump acts only on a grounded character, giving it velocityY =       *)
(* jumpStrength and onGround = FALSE, and onGround becomes TRUE again only   *)
(* in an update that lands the character on a platform; so between two       *)
(* jumps that take effect there is a landing, however often jump is called.  *)
C14_NoDoubleJump ==
    [][/\ (last'.op = "jump" =>
             IF player.onGround
             THEN player' = [player EXCEPT !.velocityY = -150, !.onGround = FALSE]
             ELSE player' = player)
       /\ (player'.onGround /\ ~player.onGround =>
             /\ last'.op = "player.update"
             /\ \E i \in 1..Len(level.platforms) :
                   /\ player'.y + player'.height = level.platforms[i].y
                   /\ player'.x + player'.width > level.platforms[i].x
                   /\ player'.x < level.platforms[i].x + level.platforms[i].width)]_vars

(* C14 witness: jump was called again right after a jump that took effect,  *)
(* on the airborne character, and changed nothing.                          *)
C14_Witness ==
    /\ last.op = "jump"
    /\ ~last.player.onGround
    /\ last.player.velocityY = -150
    /\ player = last.player

(* C15: a frame runs the input commands, then the character update, then   *)
(* the level update.  The character update collides against the platforms   *)
(* and the cameraOffset the previous frame left and changes neither; the     *)
(* level update that recycles and spawns runs after it and leaves the        *)
(* character alone, so a platform it removes was still in the set collided   *)
(* against in this frame and a platform it spawns is first collided against  *)
(* in the next.                                                              *)
C15_FrameOrder ==
    [][/\ (pc = "frame" /\ state.status = "GAME" =>
             /\ last'.op = "player.update"
             /\ pc' = "level"
             /\ \E keys \in KeySnapshots :
                   last'.player = handlePlayerInput(player, keys)
             /\ level' = level
             /\ state'.cameraOffset = state.cameraOffset
             /\ player'.onGround =>
                   \E i \in 1..Len(level.platforms) :
                      /\ player'.y + player'.height = level.platforms[i].y
                      /\ player'.x + player'.width > level.platforms[i].x
                      /\ player'.x < level.platforms[i].x + level.platforms[i].width)
       /\ (pc = "level" =>
             /\ last'.op = "level.update"
             /\ pc' = "frame"
             /\ player' = player)
       /\ (level'.platforms # level.platforms /\ last'.op # "startGame" =>
             pc = "level" /\ player' = player)]_vars

(* C15 witness: the level update of a frame, run after that frame's         *)
(* character update, has removed a platform and spawned one at              *)
(* -cameraOffset; the character update of the frame collided against the    *)
(* set that still held the removed one and not the spawned one.             *)
C15_Witness ==
    /\ last.op = "level.update"
    /\ pc = "frame"
    /\ level.platforms # last.level.platforms
    /\ level.platforms[Len(level.platforms)].y = -state.cameraOffset
    /\ last.level.platforms[1].y + state.cameraOffset >= state.height
    /\ player = last.player

(* C16: after a Level.update every platform of the level, the spawned one   *)
(* included, has y + cameraOffset < viewport height, with the cameraOffset   *)
(* that update advanced; the platforms kept are exactly those with that      *)
(* property, so one whose screen-space y equals the height is removed.       *)
C16_PlatformsAboveBottom ==
    [][last'.op = "level.update" =>
         LET c2   == state'.cameraOffset
             kept == SelectSeq(level.platforms,
                               LAMBDA q : q.y + c2 < state'.height)
             n    == Len(level'.platforms)
         IN  /\ \A i \in 1..n : level'.platforms[i].y + c2 < state'.height
             /\ \/ level'.platforms = kept
                \/ /\ n = Len(kept) + 1
                   /\ SubSeq(level'.platforms, 1, n - 1) = kept
                   /\ level'.platforms[n].y = -c2]_vars

(* C16 witness: a Level.update has removed a platform whose screen-space y  *)
(* was exactly the viewport height and spawned one at -cameraOffset.        *)
C16_Witness ==
    /\ last.op = "level.update"
    /\ \E i \in 1..Len(last.level.platforms) :
          last.level.platforms[i].y + state.cameraOffset = state.height
    /\ Len(level.platforms) >= 1
    /\ level.platforms[Len(level.platforms)].y = -state.cameraOffset
    /\ \A i \in 1..Len(level.platforms) :
          level.platforms[i].y + state.cameraOffset < state.height

(* the horizontal extents of character c and platform dim overlap *)
OverlapsX(c, dim) == c.x + c.width > dim.x /\ c.x < dim.x + dim.width

(* C17: in a character update where velocityY is negative after the gravity *)
(* step no platform is hit: the character ends the update where the moves   *)
(* put it, with that velocityY, and with onGround false.                    *)
C17_NoLandingWhileRising ==
    [][last'.op = "player.update"
          /\ ApplyGravity(last'.player).velocityY < 0 =>
         LET g == ApplyGravity(last'.player)
         IN  /\ HitIndices(BeforeCollision(last'.player, state),
                           level.platforms, 1) = {}
             /\ player' = BeforeCollision(last'.player, state)
             /\ player'.y = last'.player.y + g.velocityY
             /\ player'.velocityY = g.velocityY
             /\ ~player'.onGround]_vars

(* C17 witness: a character update has left the character moving upward,   *)
(* not grounded, with its rectangle overlapping a platform of the level.    *)
C17_Witness ==
    /\ last.op = "player.update"
    /\ player.velocityY < 0
    /\ ~player.onGround
    /\ player.y = last.player.y + player.velocityY
    /\ \E i \in 1..Len(last.level.platforms) :
          LET q == last.level.platforms[i]
          IN  /\ OverlapsX(player, q)
              /\ player.y < q.y + q.height
              /\ player.y + player.height > q.y

(* C18 as claimed: no character update takes a falling character whose      *)
(* horizontal extent overlaps a platform before and after the update from   *)
(* a bottom edge above the platform's top to a bottom edge strictly below   *)
(* it. The platform is one the update before could not have landed on      *)
(* either (its test fails on the character as that update left it), so a    *)
(* platform added between two updates is not what fails the property.       *)
C18_NoTunnelling ==
    [][last'.op = "player.update" =>
         \A i \in 1..Len(level.platforms) :
            LET q == level.platforms[i]
                c == last'.player
            IN  ~ /\ ApplyGravity(c).velocityY > 0
                  /\ ~Hits(c, q)
                  /\ OverlapsX(c, q)
                  /\ OverlapsX(player', q)
                  /\ c.y + c.height < q.y
                  /\ player'.y + player'.height > q.y]_vars

(* platform dim is under the feet of character c: its top is the character's *)
(* bottom edge and the horizontal extents overlap                            *)
StandsOn(c, dim) == c.y + c.height = dim.y /\ OverlapsX(c, dim)

(* C19: a character update that ends with onGround true ends with velocityY *)
(* 0 and on a platform of the set it was passed; and a grounded character   *)
(* with velocityX 0 on a platform of the passed set is, after the update,    *)
(* grounded at the same y with velocityY 0.                                  *)
C19_GroundedMeansOnPlatform ==
    [][last'.op = "player.update" =>
         /\ player'.onGround =>
               /\ player'.velocityY = 0
               /\ \E i \in 1..Len(level.platforms) :
                     StandsOn(player', level.platforms[i])
         /\ ( /\ last'.player.onGround
              /\ last'.player.velocityX = 0
              /\ \E i \in 1..Len(level.platforms) :
                    StandsOn(last'.player, level.platforms[i]) )
            => /\ player'.onGround
               /\ player'.y = last'.player.y
               /\ player'.x = last'.player.x
               /\ player'.velocityY = 0]_vars

(* C19 witness: a character that entered the update grounded and still on   *)
(* a platform of the set has left it grounded at the same y.                 *)
C19_Witness ==
    /\ last.op = "player.update"
    /\ last.player.onGround
    /\ last.player.velocityX = 0
    /\ \E i \in 1..Len(last.level.platforms) :
          /\ StandsOn(last.player, last.level.platforms[i])
          /\ StandsOn(player, last.level.platforms[i])
    /\ player.onGround
    /\ player.velocityY = 0
    /\ player.y = last.player.y

(* C20: the character's x stays within 0 .. viewport width.                 *)
C20_XWithinViewport == 0 <= player.x /\ player.x <= state.width

(* C20 witness: a character update has wrapped the character from the left  *)
(* edge to the viewport width.                                              *)
C20_Witness ==
    /\ last.op = "player.update"
    /\ last.player.x + last.player.velocityX < 0
    /\ player.x = state.width

(* C20 witness, right edge: the character was at the viewport width, moved  *)
(* right and is at 0.                                                       *)
C20_WitnessRight ==
    /\ last.op = "player.update"
    /\ last.player.x + last.player.velocityX > state.width
    /\ player.x = 0

====
